---- MODULE Spec2Model ----
(***************************************************************************)
(* The Programs page of pulse-atlp (src/pages/Programs/Programs.tsx) as a  *)
(* state machine.  The component state held by the useState hooks, the     *)
(* closure created by the latest render (getModalContent captures the      *)
(* values of that render), the gateway calls in flight and the documents   *)
(* the gateway holds are the state; every event handler and every promise  *)
(* callback is one action.                                                 *)
(***************************************************************************)
EXTENDS Integers, Sequences, FiniteSets, Bags, TLC

VARIABLES
    programs,           \* useState<Program[]>([])                  line 144
    isLoading,          \* useState(true)                            line 145
    isCreatingProgram,  \* useState(false)                           line 146
    errors,             \* useState({title:'', ...})                 line 147
    newProgram,         \* useState({...}) the retained draft        line 152
    isVisible,          \* the visibility state kept by useModal     line 159
    rendered,           \* what the latest render captured (getModalContent's parameters)
    view,               \* which of the three returns the latest render took
    creates,            \* the bag of ProgramModel.create() calls in flight, each with its handler's closure
    loads,              \* the ProgramModel.getAll() calls in flight
    store,              \* the documents of the gateway's collection
    nextId,             \* the next document id the gateway hands out
    clock,              \* logical time: 0 at mount, advanced by every submit
    last                \* the event that produced this state

vars == <<programs, isLoading, isCreatingProgram, errors, newProgram, isVisible,
          rendered, view, creates, loads, store, nextId, clock, last>>

(***************************************************************************)
(* Bounds of the model.                                                    *)
(***************************************************************************)
MaxSubmits == 2      \* submits of the form during the page's lifetime
MaxProblems == 2     \* field problems one ValidationError reports

(***************************************************************************)
(* Values.                                                                 *)
(***************************************************************************)
DefaultDurationInWeeks == 2
DefaultTraineeCount == 0

\* A number and the string an <input> delivers are different values.
Num(n) == [num |-> n]
Str(s) == [str |-> s]

\* event.target.value for the two inputs that have an onChange handler
EditableFields == {"title", "durationInWeeks"}
TypedValues(name) ==
    IF name = "title" THEN {"Cohort 5"} ELSE {Str("6")}

FormFields == {"title", "prerequisiteProgramId", "durationInWeeks"}

\* the initial value of the errors state
InitialErrors == [f \in FormFields |-> <<>>]

\* the object literal {}
EmptyObject == [f \in {} |-> <<>>]

\* the initial value of the newProgram state; createdAt is new Date() at mount
InitialNewProgram(now) ==
    [title |-> "",
     prerequisiteProgramId |-> "",
     createdAt |-> now,
     traineeCount |-> DefaultTraineeCount,
     durationInWeeks |-> Num(DefaultDurationInWeeks)]

\* newProgram = { ...newProgram, [event.target.name]: event.target.value }
SetField(draft, name, value) == [draft EXCEPT ![name] = value]

\* { ...newProgram, id: docRef.id }
WithId(draft, id) ==
    [f \in DOMAIN draft \cup {"id"} |-> IF f = "id" THEN id ELSE draft[f]]

\* [...programs, { ...newProgram, id: docRef.id }]
AppendedPrograms(progs, draft, id) == Append(progs, WithId(draft, id))

\* Firestore Timestamp -> Date (milliseconds): Timestamp.toDate(), then new Date(date)
ToDate(ts) == ts.seconds * 1000 + (ts.nanoseconds \div 1000000)

\* Date (milliseconds) -> Firestore Timestamp, as the gateway stores a Date
FromDate(ms) == [seconds |-> ms \div 1000, nanoseconds |-> (ms % 1000) * 1000000]

\* a document the collection holds before the page mounts
StoredRecord ==
    [title |-> "Existing",
     prerequisiteProgramId |-> "",
     createdAt |-> [seconds |-> 0 - 1, nanoseconds |-> 1500000],
     traineeCount |-> DefaultTraineeCount,
     durationInWeeks |-> Num(DefaultDurationInWeeks)]

\* the collection when the page mounts: empty, or holding one document
InitialStores == {<<>>, <<StoredRecord>>}

\* what the gateway persists for a draft
Persisted(draft) == [draft EXCEPT !.createdAt = FromDate(@)]

\* the loop of the then callback: program.data() with createdAt converted
ExistingPrograms(snapshot) ==
    [k \in 1..Len(snapshot) |-> [snapshot[k] EXCEPT !.createdAt = ToDate(@)]]

Remove(seq, i) == SubSeq(seq, 1, i - 1) \o SubSeq(seq, i + 1, Len(seq))

(***************************************************************************)
(* The validator's error (joi ValidationError).  A message is a sequence   *)
(* of text tokens; Quote is the character ".                               *)
(***************************************************************************)
Quote == "\""

Problem(field, text) ==
    [path |-> <<field>>, message |-> <<Quote, field, Quote, text>>]

Problems ==
    {Problem("title", " is required"),
     Problem("durationInWeeks", " must be a number")}

SeqsUpTo(S, n) == UNION {[1..k -> S] : k \in 1..n}

NoRepeat(s) == \A i, j \in 1..Len(s) : i # j => s[i] # s[j]

\* err.details: a non-empty ordered sequence of distinct field problems
Details ==
    {d \in SeqsUpTo(Problems, MaxProblems) : NoRepeat(d)}

\* err.message: the messages of the details joined by ". "
RECURSIVE JoinMessages(_)
JoinMessages(details) ==
    IF Len(details) = 1 THEN details[1].message
    ELSE details[1].message \o <<". ">> \o JoinMessages(Tail(details))

\* message.replace(/^".+"/, 'Field'): the match starts at a leading quote and,
\* .+ being greedy, ends at the LAST quote that has a character before it.
ReplaceLeadingQuoted(message) ==
    LET closing == {j \in 3..Len(message) : message[j] = Quote}
    IN  IF Len(message) >= 3 /\ message[1] = Quote /\ closing # {}
        THEN LET end == CHOOSE j \in closing : \A k \in closing : k <= j
             IN  <<"Field">> \o SubSeq(message, end + 1, Len(message))
        ELSE message

\* faulty variant of ErrorsAfterValidation: the new error is merged into the
\* earlier ones, { ...errors, [key]: errorMessage }
MergedErrors(details) ==
    LET key == details[1].path[1]
    IN  [f \in DOMAIN errors \cup {key} |->
           IF f = key THEN ReplaceLeadingQuoted(JoinMessages(details)) ELSE errors[f]]

\* { [err.details[0].path[0]]: errorMessage }
ErrorsAfterValidation(details) ==
    LET key == details[1].path[1]
    IN  [f \in {key} |-> ReplaceLeadingQuoted(JoinMessages(details))]

(***************************************************************************)
(* Rendering.                                                              *)
(***************************************************************************)
\* faulty variant of View: the empty-list test comes first and ignores isLoading
EmptyFirstView(progs, loading) ==
    IF Len(progs) = 0 THEN "empty"
    ELSE IF loading THEN "loading"
    ELSE "populated"

\* the three returns of ProgramsPage
View(progs, loading) ==
    IF loading THEN "loading"
    ELSE IF Len(progs) = 0 /\ ~loading THEN "empty"
    ELSE "populated"

\* the arguments getModalContent receives from one render
Closure(progs, draft, visible, creating) ==
    [programs |-> progs, newProgram |-> draft,
     isVisible |-> visible, isCreatingProgram |-> creating]

\* useModal's toggleModal of one render: it flips the visibility that render saw
ToggleModal(visible) == ~visible

\* a render replaces the form's handlers: calls in flight keep their closure,
\* which the inputs no longer write to
Detach(call) == [call EXCEPT !.live = FALSE]

Detached(calls) == BagOfAll(Detach, calls)

Settled(calls, call) == calls (-) SetToBag({call})

Started(calls, call) == calls (+) SetToBag({call})

\* the form is in the document
FormRendered == view # "loading" /\ isVisible

\* <Button disabled={isCreatingProgram}>
SubmitDisabled == rendered.isCreatingProgram

\* what an event leaves in `last`: its kind and, for a validation failure, the
\* problems the validator reported
Event(kind, details) == [kind |-> kind, details |-> details]

OtherEvent == Event("other", <<>>)

\* ProgramModel.getAll(), invoked by a render that finds isLoading true: the
\* call in flight, numbered in the order of invocation, with the documents the
\* collection held when it was made
GetAll(n) == [invocation |-> n, snapshot |-> store]

(***************************************************************************)
(* The state after the first render: the component state holds the         *)
(* useState initial values, isLoading is true, so the render has invoked   *)
(* getAll() once and returned the loading view.                            *)
(***************************************************************************)
Init ==
    /\ store \in InitialStores
    /\ programs = <<>>
    /\ isLoading = TRUE
    /\ isCreatingProgram = FALSE
    /\ errors = InitialErrors
    /\ newProgram = InitialNewProgram(0)
    /\ isVisible = FALSE
    /\ rendered = Closure(programs, newProgram, isVisible, isCreatingProgram)
    /\ view = View(programs, isLoading)
    /\ creates = EmptyBag
    /\ loads = <<GetAll(1)>>
    /\ nextId = 1
    /\ clock = 0
    /\ last = OtherEvent

(***************************************************************************)
(* The list load (lines 176-195).                                          *)
(***************************************************************************)
\* faulty variant of FinallyLoadingStatus: no finally callback
KeptLoadingStatus(loading) == loading

\* .finally(() => updateLoadingStatus(false))
FinallyLoadingStatus(loading) == FALSE

\* getAll() resolves: the then callback replaces the list, and the finally
\* callback, two microtasks later, clears the loading flag.  No other event
\* can run between the two.  updatePrograms is called outside a React event
\* handler: a legacy-mode root renders at once, with isLoading still true, so
\* that render takes the branch of line 176 and invokes getAll() again; a root
\* that batches the two updates renders once, after finally.
LoadResolve(i, data, syncRender) ==
    /\ i \in DOMAIN loads
    /\ data \in {loads[i].snapshot, store}
    /\ programs' = ExistingPrograms(data)
    /\ IF syncRender /\ isLoading
       THEN loads' = Append(Remove(loads, i), GetAll(loads[i].invocation + 1))
       ELSE loads' = Remove(loads, i)
    /\ isLoading' = FinallyLoadingStatus(isLoading)
    /\ rendered' = Closure(programs', newProgram, isVisible, isCreatingProgram)
    /\ view' = View(programs', isLoading')
    /\ creates' = Detached(creates)
    /\ last' = Event("loaded", <<>>)
    /\ UNCHANGED <<isCreatingProgram, errors, newProgram, isVisible, store, nextId, clock>>

\* getAll() rejects: catch logs the message, finally clears the loading flag.
\* The component renders again only if the flag changed.
LoadReject(i) ==
    /\ i \in DOMAIN loads
    /\ loads' = Remove(loads, i)
    /\ isLoading' = FinallyLoadingStatus(isLoading)
    /\ IF isLoading' # isLoading
       THEN /\ rendered' = Closure(programs, newProgram, isVisible, isCreatingProgram)
            /\ view' = View(programs, isLoading')
            /\ creates' = Detached(creates)
       ELSE UNCHANGED <<rendered, view, creates>>
    /\ last' = OtherEvent
    /\ UNCHANGED <<programs, isCreatingProgram, errors, newProgram, isVisible, store,
                   nextId, clock>>

(***************************************************************************)
(* The dialog (lines 159-174, 219, 232) and the form (lines 78-139).       *)
(***************************************************************************)
\* faulty variant of ToggleButtonRendered: the loading view has the button too
ButtonInEveryView == TRUE

\* the empty and the populated view render <Button onClick={toggleModal}> and
\* {Modal}; the loading view renders neither
ToggleButtonRendered == view # "loading"

\* <Button onClick={toggleModal}>, or the dialog's own close control
ToggleModalClick ==
    /\ ToggleButtonRendered
    /\ isVisible' = ToggleModal(rendered.isVisible)
    /\ rendered' = Closure(programs, newProgram, isVisible', isCreatingProgram)
    /\ creates' = Detached(creates)
    /\ last' = OtherEvent
    /\ UNCHANGED <<programs, isLoading, isCreatingProgram, errors, newProgram, view,
                   loads, store, nextId, clock>>

\* faulty variant of NewProgramOnChangeHandler: the edit goes to the newProgram
\* state through updateNewProgram
ControlledOnChangeHandler(name, value) ==
    /\ FormRendered
    /\ name \in EditableFields
    /\ value \in TypedValues(name)
    /\ newProgram' = SetField(newProgram, name, value)
    /\ rendered' = Closure(programs, newProgram', isVisible, isCreatingProgram)
    /\ creates' = Detached(creates)
    /\ last' = OtherEvent
    /\ UNCHANGED <<programs, isLoading, isCreatingProgram, errors,
                   isVisible, view, loads, store, nextId, clock>>

\* newProgramOnChangeHandler: it assigns the closure's local variable, of the
\* render whose form is in the document, and calls no state setter
NewProgramOnChangeHandler(name, value) ==
    /\ FormRendered
    /\ name \in EditableFields
    /\ value \in TypedValues(name)
    /\ rendered' = [rendered EXCEPT !.newProgram = SetField(@, name, value)]
    /\ creates' = BagOfAll(LAMBDA call :
                              IF call.live
                              THEN [call EXCEPT !.newProgram = SetField(@, name, value),
                                                !.edited = @ \cup {name}]
                              ELSE call,
                            creates)
    /\ last' = OtherEvent
    /\ UNCHANGED <<programs, isLoading, isCreatingProgram, errors, newProgram,
                   isVisible, view, loads, store, nextId, clock>>

\* addNewProgramHandler up to its await (lines 82-86): the flag is set and
\* create() is called with the closure's draft.  The handler runs inside a
\* React event, so the render (if the flag changed) follows the call.
AddNewProgramHandler ==
    LET call == [sent |-> rendered.newProgram,
                 newProgram |-> rendered.newProgram,
                 programs |-> rendered.programs,
                 isVisible |-> rendered.isVisible,
                 edited |-> {},
                 live |-> isCreatingProgram]
    IN  /\ FormRendered
        /\ clock < MaxSubmits
        /\ clock' = clock + 1
        /\ isCreatingProgram' = TRUE
        /\ IF isCreatingProgram' # isCreatingProgram
           THEN /\ rendered' = Closure(programs, newProgram, isVisible, isCreatingProgram')
                /\ creates' = Started(Detached(creates), call)
           ELSE /\ rendered' = rendered
                /\ creates' = Started(creates, call)
        /\ last' = OtherEvent
        /\ UNCHANGED <<programs, isLoading, errors, newProgram, isVisible, view,
                       loads, store, nextId>>

\* the submit button, which is disabled while isCreatingProgram (line 135)
SubmitClick ==
    /\ ~SubmitDisabled
    /\ AddNewProgramHandler

\* the form's onSubmit reached without the button (Enter in a text input)
SubmitImplicit ==
    /\ SubmitDisabled
    /\ AddNewProgramHandler

\* faulty variant of ClearedErrors: the success path leaves the errors alone
KeptErrors == errors

\* updateErrors({})
ClearedErrors == EmptyObject

\* faulty variant of PersistedDraft: the failure path does not persist the draft
UnpersistedDraft(call) == newProgram

\* updateNewProgram(newProgram): the handler's closure variable, as it is now
PersistedDraft(call) == call.newProgram

\* create() resolves with docRef (lines 87-90)
CreateResolve(call) ==
    /\ BagIn(call, creates)
    /\     /\ isVisible' = ToggleModal(call.isVisible)
           /\ isCreatingProgram' = FALSE
           /\ programs' = AppendedPrograms(call.programs, call.newProgram, nextId)
           /\ errors' = ClearedErrors
           /\ store' = Append(store, Persisted(call.sent))
           /\ last' = Event("created", <<>>)
    /\ nextId' = nextId + 1
    /\ rendered' = Closure(programs', newProgram, isVisible', isCreatingProgram')
    /\ view' = View(programs', isLoading)
    /\ creates' = Detached(Settled(creates, call))
    /\ UNCHANGED <<isLoading, newProgram, loads, clock>>

\* create() rejects with a ValidationError (lines 92-100)
CreateRejectValidation(call, details) ==
    /\ BagIn(call, creates)
    /\ details \in Details
    /\     /\ isCreatingProgram' = FALSE
           /\ newProgram' = PersistedDraft(call)
           /\ errors' = ErrorsAfterValidation(details)
           /\ last' = Event("rejected", details)
    /\ rendered' = Closure(programs, newProgram', isVisible, isCreatingProgram')
    /\ creates' = Detached(Settled(creates, call))
    /\ UNCHANGED <<programs, isLoading, isVisible, view, loads, store,
                   nextId, clock>>

\* faulty variant of CreateRejectOther: the catch block clears the errors for
\* any error
CreateRejectOtherCleared(call) ==
    /\ BagIn(call, creates)
    /\ errors' = ClearedErrors
    /\ rendered' = Closure(programs, newProgram, isVisible, isCreatingProgram)
    /\ creates' = Detached(Settled(creates, call))
    /\ last' = Event("failed", <<>>)
    /\ UNCHANGED <<programs, isLoading, isCreatingProgram, newProgram,
                   isVisible, view, loads, store, nextId, clock>>

\* create() rejects with anything else: the catch block does nothing (line 92)
CreateRejectOther(call) ==
    /\ BagIn(call, creates)
    /\ creates' = Settled(creates, call)
    /\ last' = Event("failed", <<>>)
    /\ UNCHANGED <<programs, isLoading, isCreatingProgram, errors, newProgram,
                   isVisible, rendered, view, loads, store, nextId, clock>>

Next ==
    \/ \E i \in DOMAIN loads, syncRender \in BOOLEAN :
         \E data \in {loads[i].snapshot, store} : LoadResolve(i, data, syncRender)
    \/ \E i \in DOMAIN loads : LoadReject(i)
    \/ ToggleModalClick
    \/ \E name \in EditableFields : \E value \in TypedValues(name) :
         NewProgramOnChangeHandler(name, value)
    \/ SubmitClick
    \/ SubmitImplicit
    \/ \E call \in BagToSet(creates) : CreateResolve(call)
    \/ \E call \in BagToSet(creates), details \in Details :
         CreateRejectValidation(call, details)
    \/ \E call \in BagToSet(creates) : CreateRejectOther(call)

Spec == Init /\ [][Next]_vars

(***************************************************************************)
(* Properties.                                                             *)
(***************************************************************************)
\* the create() call that the step from the unprimed to the primed state settled
SettledCall(call) ==
    /\ BagIn(call, creates)
    /\ BagCardinality(creates') = BagCardinality(creates) - 1
    /\ Detached(creates') = Detached(Settled(creates, call))

\* an entry appended by a creation carries the id the gateway returned; an
\* entry built from program.data() carries none
HasId(program) == "id" \in DOMAIN program

\* C1: when a submit of draft D completes with gateway identifier i, the list
\* has exactly one more entry than just before, the new entry is D with
\* id = i, and every entry that was in the list is still in it.
C1_CreationAppendsOneEntry ==
    [][last'.kind = "created" =>
         /\ Len(programs') = Len(programs) + 1
         /\ \A k \in DOMAIN programs : \E j \in DOMAIN programs' : programs'[j] = programs[k]
         /\ \E call \in BagToSet(creates) :
              /\ SettledCall(call)
              /\ programs'[Len(programs')] = WithId(call.sent, nextId)]_vars

\* C2: after a successful completion of a create call the dialog is closed,
\* the submitting flag is false and the error set is empty, whatever happened
\* while the call was in flight.
C2_SuccessClosesAndClears ==
    last.kind = "created" =>
        /\ ~isVisible
        /\ ~isCreatingProgram
        /\ DOMAIN errors = {}

\* a creation has just succeeded while another submit is still in flight
C2_Witness ==
    /\ last.kind = "created"
    /\ creates # EmptyBag
    /\ ~isVisible
    /\ ~isCreatingProgram
    /\ DOMAIN errors = {}

\* C3 as stated: after a submit of draft D fails validation the flag is false,
\* the dialog is open, the list is unchanged and the retained draft is D.
C3_FailureKeepsDraftAndDialog ==
    [][last'.kind = "rejected" =>
         /\ ~isCreatingProgram'
         /\ isVisible'
         /\ programs' = programs
         /\ \E call \in BagToSet(creates) :
              SettledCall(call) /\ newProgram' = call.sent]_vars

\* C3 as amended: after a submit of draft D fails validation the flag is
\* false, the dialog and the list are as they were just before the failure,
\* and the retained draft equals D in every field that was not edited, through
\* the form the submit came from, while the call was in flight; an edited
\* field holds a typed value.
C3_FailureKeepsUneditedDraft ==
    [][last'.kind = "rejected" =>
         /\ ~isCreatingProgram'
         /\ isVisible' = isVisible
         /\ programs' = programs
         /\ \E call \in BagToSet(creates) :
              /\ SettledCall(call)
              /\ DOMAIN newProgram' = DOMAIN call.sent
              /\ \A f \in DOMAIN call.sent :
                   IF f \in call.edited
                   THEN f \in EditableFields /\ newProgram'[f] \in TypedValues(f)
                   ELSE newProgram'[f] = call.sent[f]]_vars

\* a failed submit has left the typed draft as the retained draft, with the
\* dialog open and the flag cleared
C3_Witness ==
    /\ last.kind = "rejected"
    /\ newProgram.title = "Cohort 5"
    /\ newProgram.durationInWeeks = Str("6")
    /\ isVisible
    /\ ~isCreatingProgram

\* C4: after a validation failure reporting N >= 1 ordered problems the error
\* set has exactly one entry, keyed by the first segment of the first
\* problem's path; nothing of the earlier error set is left.
C4_SingleErrorForFirstProblem ==
    last.kind = "rejected" =>
        /\ Len(last.details) >= 1
        /\ Cardinality(DOMAIN errors) = 1
        /\ DOMAIN errors = {last.details[1].path[1]}

\* a failure that reported two problems has left its single error
C4_Witness ==
    /\ last.kind = "rejected"
    /\ Len(last.details) >= 2
    /\ DOMAIN errors = {"durationInWeeks"}

\* the first problem's own message with its leading quoted field name
\* replaced by the word Field
FirstMessageAsField(details) ==
    <<"Field">> \o SubSeq(details[1].message, 4, Len(details[1].message))

\* C5: the message shown after a validation failure is the first reported
\* problem's message with its leading quoted field name replaced by "Field",
\* and holds no text of a later problem.
C5_MessageIsFirstProblems ==
    last.kind = "rejected" =>
        \A f \in DOMAIN errors : errors[f] = FirstMessageAsField(last.details)

\* C6: getAll() is invoked at most once during the page's lifetime: every
\* call in flight is the first invocation.
C6_GetAllInvokedOnce ==
    \A i \in DOMAIN loads : loads[i].invocation <= 1

\* C7: once getAll() has settled, by resolving or by rejecting, the loading
\* flag is false, and a false loading flag never becomes true again.
C7_LoadingClearedForGood ==
    [][/\ (\A i \in DOMAIN loads' : loads'[i].invocation # 1) => ~isLoading'
       /\ ~isLoading => ~isLoading']_vars

\* getAll() has rejected: the collection holds a document, nothing was
\* created, the list is empty and the flag is cleared
C7_Witness ==
    /\ ~isLoading
    /\ loads = <<>>
    /\ store # <<>>
    /\ nextId = 1
    /\ programs = <<>>

\* C8: the view is loading when isLoading, empty-state when not loading and
\* the list is empty, populated otherwise; after a getAll() that resolved to
\* zero records the view is the empty-state view.
C8_ViewClassification ==
    /\ isLoading => view = "loading"
    /\ ~isLoading /\ programs = <<>> => view = "empty"
    /\ ~isLoading /\ programs # <<>> => view = "populated"
    /\ last.kind = "loaded" /\ Len(programs) = 0 => view = "empty"

\* getAll() has just resolved to zero records
C8_Witness ==
    /\ last.kind = "loaded"
    /\ Len(programs) = 0
    /\ view = "empty"

\* C9: every submit leaves the Submitting state, whatever the outcome of
\* create(): once no create() call is in flight the submitting flag is false.
C9_SubmittingEnds ==
    creates = EmptyBag => ~isCreatingProgram

\* C10: a program appended by a successful creation stays in the list,
\* unchanged, in every later state.
C10_CreatedProgramsStay ==
    [][\A k \in DOMAIN programs :
         HasId(programs[k]) =>
             \E j \in DOMAIN programs' : programs'[j] = programs[k]]_vars

\* C11: at any time at most one gateway operation, a getAll() load or a
\* create() submit, started by the page is in flight.
C11_OneOperationInFlight ==
    Len(loads) + BagCardinality(creates) <= 1

\* C12: a value the user has set in a dialog field reaches create(): create()
\* is passed the form's draft (rendered.newProgram), so a field of that draft
\* that holds a typed value keeps it through every step that leaves the form in
\* the document, whatever re-render the step causes, until it is typed again.
C12_EditReachesCreate ==
    [][\A name \in EditableFields :
          (/\ FormRendered
           /\ FormRendered'
           /\ rendered.newProgram[name] \in TypedValues(name))
          => rendered'.newProgram[name] = rendered.newProgram[name]]_vars

\* a Date (milliseconds) denotes the instant of a stored timestamp, at the
\* resolution of a Date
SameInstant(date, ts) ==
    /\ date * 1000000 <= ts.seconds * 1000000000 + ts.nanoseconds
    /\ ts.seconds * 1000000000 + ts.nanoseconds < (date + 1) * 1000000

\* the list is exactly the delivered records, in the delivered order
DeliveredList(progs, data) ==
    /\ Len(progs) = Len(data)
    /\ \A k \in 1..Len(data) :
         /\ DOMAIN progs[k] = DOMAIN data[k]
         /\ \A f \in DOMAIN data[k] \ {"createdAt"} : progs[k][f] = data[k][f]
         /\ SameInstant(progs[k].createdAt, data[k].createdAt)

\* the step from the unprimed to the primed state is a getAll() that rejected
LoadRejected ==
    /\ Len(loads') = Len(loads) - 1
    /\ last'.kind = "other"

\* C13: when getAll() resolves, the list becomes exactly the delivered records
\* in the delivered order, each createdAt a Date of the stored instant; when
\* getAll() rejects, the list remains empty and the errors are unchanged.
C13_LoadReplacesOrLeavesEmpty ==
    [][/\ last'.kind = "loaded" =>
            \E i \in DOMAIN loads : \E data \in {loads[i].snapshot, store} :
                DeliveredList(programs', data)
       /\ LoadRejected => (programs' = <<>> /\ errors' = errors)]_vars

\* C14: a create() that fails with an error that is not a validation error
\* leaves the errors, the retained draft, the program list and the dialog's
\* visibility exactly as they were.
C14_OtherFailureChangesNothing ==
    [][last'.kind = "failed" =>
          /\ errors' = errors
          /\ newProgram' = newProgram
          /\ programs' = programs
          /\ isVisible' = isVisible]_vars

\* a create() has failed that way with the dialog open, errors on display and
\* a retained draft that is no longer the initial one
C14_Witness ==
    /\ last.kind = "failed"
    /\ isVisible
    /\ DOMAIN errors # {}
    /\ errors # InitialErrors
    /\ newProgram # InitialNewProgram(0)

\* two list entries that are the same entry, whatever their createdAt
SameEntry(p, q) ==
    /\ DOMAIN p = DOMAIN q
    /\ \A f \in DOMAIN p \ {"createdAt"} : p[f] = q[f]

\* C15: the entry a creation appends has createdAt equal to the time its
\* submit was made, on the logical clock that is 0 at mount and advances with
\* each submit (so one of 1..clock), and the createdAt of an entry of the list
\* never changes afterwards.
C15_CreatedAtIsSubmitTime ==
    [][/\ last'.kind = "created" =>
            programs'[Len(programs')].createdAt \in 1..clock
       /\ \A k \in DOMAIN programs, j \in DOMAIN programs' :
            SameEntry(programs[k], programs'[j])
            => programs'[j].createdAt = programs[k].createdAt]_vars

\* a list entry corresponds to a document of the collection
CorrespondsTo(program, doc) ==
    /\ \A f \in DOMAIN doc \ {"createdAt"} :
         f \in DOMAIN program /\ program[f] = doc[f]
    /\ SameInstant(program.createdAt, doc.createdAt)

IsPersisted(program) ==
    \E k \in DOMAIN store : CorrespondsTo(program, store[k])

\* C16: an entry of the list carries an id exactly when it corresponds to a
\* record persisted in the gateway, whether it came from getAll() or from a
\* creation, and the draft never carries an id.
C16_IdIffPersisted ==
    /\ \A k \in DOMAIN programs : HasId(programs[k]) <=> IsPersisted(programs[k])
    /\ ~HasId(newProgram)
    /\ ~HasId(rendered.newProgram)

\* C17: while isLoading is true the dialog is closed, the submitting flag is
\* false and no create() is in flight.
C17_LoadingIsQuiet ==
    isLoading => (~isVisible /\ ~isCreatingProgram /\ creates = EmptyBag)

\* the page is loading: the loading view is shown and getAll() is in flight
C17_Witness ==
    /\ isLoading
    /\ view = "loading"
    /\ loads # <<>>

\* C18: the retained draft (the newProgram state) changes only in a step where
\* a submit fails with a validation error; edits, toggles, successes, other
\* failures and load completions leave it unchanged, so after a successful
\* creation the form is seeded from that unchanged retained draft.
C18_DraftChangesOnValidationFailureOnly ==
    [][/\ newProgram' # newProgram => last'.kind = "rejected"
       /\ last'.kind = "created" =>
            (newProgram' = newProgram /\ rendered'.newProgram = newProgram)]_vars

\* a creation has succeeded after a validation failure retained an edited
\* draft, and the form is seeded from that draft
C18_Witness ==
    /\ last.kind = "created"
    /\ newProgram # InitialNewProgram(0)
    /\ rendered.newProgram = newProgram

====
